---- MODULE Spec2Model ----
(***************************************************************************)
(* ModuleBase (sonic_platform_base/module_base.py): a module of a modular  *)
(* chassis with five collections of sub-devices, three accessors for each  *)
(* collection and ten operations that the base class leaves unimplemented. *)
(*                                                                         *)
(* Python objects are modelled with their identity: a list is an address   *)
(* of the heap, an attribute of an instance is looked up in the instance   *)
(* dictionary and then in the class, and a call is recorded with the value *)
(* it returned, the exception that escaped and the lines it wrote to       *)
(* sys.stderr.                                                             *)
(***************************************************************************)
EXTENDS Integers, Sequences, FiniteSets, TLC

\* ---------------------------------------------------------------- bounds
\* sub-devices registered in all, on all modules and kinds
MaxRegs == 3
\* indices passed to get_<kind> range over -MaxIndex .. MaxIndex
MaxIndex == 3

\* ---------------------------------------------------------------- values
Modules == {"m1", "m2"}
KindSet == {"component", "fan", "psu", "thermal", "sfp"}
Attrs == {"_component_list", "_fan_list", "_psu_list", "_thermal_list", "_sfp_list"}
Addrs == Modules \X Attrs

None == [t |-> "None"]
NoValue == [t |-> "no value"]
IntV(n) == [t |-> "int", int |-> n]
BoolV(b) == [t |-> "bool", bool |-> b]
ListRef(a) == [t |-> "list", addr |-> a]
Device(d) == [t |-> "device", dev |-> d]

Indices == (0 - MaxIndex)..MaxIndex
Timeouts == {0, 1000}

VARIABLES
  cls,     \* cls[m]: "unborn", or the class whose constructor built m
  inst,    \* inst[m]: the instance dictionary of m, attribute -> value
  heap,    \* heap[a]: the contents of the list object at address a
  nregs,   \* nregs[m]: number of sub-devices registered on m so far
  last,    \* the call whose outcome the caller holds, if any
  since    \* number of registrations since that call

vars == <<cls, inst, heap, nregs, last, since>>

alive == {m \in Modules : cls[m] # "unborn"}
TotalRegs == nregs["m1"] + nregs["m2"]

\* ------------------------------------------------------ class attributes
_component_list == None
_fan_list == None
_psu_list == None
_thermal_list == None
_sfp_list == None

ClassAttr(attr) ==
  CASE attr = "_component_list" -> _component_list
    [] attr = "_fan_list" -> _fan_list
    [] attr = "_psu_list" -> _psu_list
    [] attr = "_thermal_list" -> _thermal_list
    [] attr = "_sfp_list" -> _sfp_list

\* self.<attr>: the instance dictionary first, then the class
Lookup(self, attr) ==
  IF attr \in DOMAIN inst[self] THEN inst[self][attr] ELSE ClassAttr(attr)

\* faulty variants of __init__: one that forgets self._sfp_list = [], and one that
\* binds the five attributes to one and the same list
init_without_sfp_list(self) == [a \in Attrs \ {"_sfp_list"} |-> ListRef(<<self, a>>)]
init_one_list_for_all(self) == [a \in Attrs |-> ListRef(<<self, "_component_list">>)]

\* the instance dictionary __init__ leaves: five fresh lists, one per attribute
__init__(self) == [a \in Attrs |-> ListRef(<<self, a>>)]

\* ------------------------------------------------------- Python built-ins
Return(v) == [ret |-> v, exc |-> "none", err |-> <<>>]
Raise(e) == [ret |-> NoValue, exc |-> e, err |-> <<>>]

\* len(x)
PyLen(x) ==
  IF x.t = "list" THEN Return(IntV(Len(heap[x.addr]))) ELSE Raise("TypeError")

\* x[index]: a negative index counts from the end of the list
PyGetItem(x, index) ==
  IF x.t # "list" THEN Raise("TypeError")
  ELSE LET n == Len(heap[x.addr]) IN
       IF index >= 0 /\ index < n THEN Return(heap[x.addr][index + 1])
       ELSE IF index < 0 /\ index >= 0 - n THEN Return(heap[x.addr][n + index + 1])
       ELSE Raise("IndexError")

Digit(d) ==
  CASE d = 0 -> "0" [] d = 1 -> "1" [] d = 2 -> "2" [] d = 3 -> "3" [] d = 4 -> "4"
    [] d = 5 -> "5" [] d = 6 -> "6" [] d = 7 -> "7" [] d = 8 -> "8" [] d = 9 -> "9"

RECURSIVE Decimal(_)
Decimal(n) == IF n < 10 THEN Digit(n) ELSE Decimal(n \div 10) \o Digit(n % 10)

\* "{}".format(n) of an integer n
Format(n) == IF n < 0 THEN "-" \o Decimal(0 - n) ELSE Decimal(n)

\* ------------------------------------------- identity and lifecycle stubs
get_base_mac(self) == Raise("NotImplementedError")
get_system_eeprom_info(self) == Raise("NotImplementedError")
get_name(self) == Raise("NotImplementedError")
get_description(self) == Raise("NotImplementedError")
get_slot(self) == Raise("NotImplementedError")
get_type(self) == Raise("NotImplementedError")
\* faulty variant of get_status: a body that falls through and returns None
get_status_falls_through(self) == Return(None)
get_status(self) == Raise("NotImplementedError")
reboot(self) == Raise("NotImplementedError")
set_admin_state(self, up) == Raise("NotImplementedError")
get_change_event(self, timeout) == Raise("NotImplementedError")

\* ---------------------------------------------------- collection accessors
\* faulty variant of GetByIndex: the diagnostic reports the size, not the last index
GetByIndexReportingSize(lst, tag, index) ==
  LET item == PyGetItem(lst, index) IN
  IF item.exc = "IndexError"
  THEN LET n == PyLen(lst).ret.int IN
       [ret |-> None, exc |-> "none",
        err |-> <<tag \o " index " \o Format(index) \o " out of range (0-"
                    \o Format(n) \o ")\n">>]
  ELSE item

\* the body shared by the five get_<kind>(index): try list[index], and on
\* IndexError write one line to sys.stderr and return None
GetByIndex(lst, tag, index) ==
  LET item == PyGetItem(lst, index) IN
  IF item.exc = "IndexError"
  THEN LET n == PyLen(lst).ret.int IN
       [ret |-> None, exc |-> "none",
        err |-> <<tag \o " index " \o Format(index) \o " out of range (0-"
                    \o Format(n - 1) \o ")\n">>]
  ELSE item

get_num_components(self) == PyLen(Lookup(self, "_component_list"))
get_all_components(self) == Return(Lookup(self, "_component_list"))
get_component(self, index) == GetByIndex(Lookup(self, "_component_list"), "Component", index)

get_num_fans(self) == PyLen(Lookup(self, "_fan_list"))
\* faulty variant of get_all_fans: return list(self._fan_list), a copy
get_all_fans_copy(self) ==
  IF Lookup(self, "_fan_list").t = "list"
  THEN Return([t |-> "newlist", items |-> heap[Lookup(self, "_fan_list").addr]])
  ELSE Raise("TypeError")
get_all_fans(self) == Return(Lookup(self, "_fan_list"))
get_fan(self, index) == GetByIndex(Lookup(self, "_fan_list"), "Fan", index)

get_num_psus(self) == PyLen(Lookup(self, "_psu_list"))
get_all_psus(self) == Return(Lookup(self, "_psu_list"))
\* faulty variant of get_psu: the index is taken as 1-based
get_psu_one_based(self, index) == GetByIndex(Lookup(self, "_psu_list"), "PSU", index - 1)
get_psu(self, index) == GetByIndex(Lookup(self, "_psu_list"), "PSU", index)

get_num_thermals(self) == PyLen(Lookup(self, "_thermal_list"))
get_all_thermals(self) == Return(Lookup(self, "_thermal_list"))
get_thermal(self, index) == GetByIndex(Lookup(self, "_thermal_list"), "THERMAL", index)

get_num_sfps(self) == PyLen(Lookup(self, "_sfp_list"))
get_all_sfps(self) == Return(Lookup(self, "_sfp_list"))
\* faulty variant of get_sfp: the index is taken as 1-based
get_sfp_one_based(self, index) == GetByIndex(Lookup(self, "_sfp_list"), "SFP", index - 1)
get_sfp(self, index) == GetByIndex(Lookup(self, "_sfp_list"), "SFP", index)

\* get_num_<kind>s, get_all_<kind>s and get_<kind> by the name of the kind
get_num(self, kind) ==
  CASE kind = "component" -> get_num_components(self)
    [] kind = "fan" -> get_num_fans(self)
    [] kind = "psu" -> get_num_psus(self)
    [] kind = "thermal" -> get_num_thermals(self)
    [] kind = "sfp" -> get_num_sfps(self)

get_all(self, kind) ==
  CASE kind = "component" -> get_all_components(self)
    [] kind = "fan" -> get_all_fans(self)
    [] kind = "psu" -> get_all_psus(self)
    [] kind = "thermal" -> get_all_thermals(self)
    [] kind = "sfp" -> get_all_sfps(self)

get_kind(self, kind, index) ==
  CASE kind = "component" -> get_component(self, index)
    [] kind = "fan" -> get_fan(self, index)
    [] kind = "psu" -> get_psu(self, index)
    [] kind = "thermal" -> get_thermal(self, index)
    [] kind = "sfp" -> get_sfp(self, index)

AttrOf(kind) ==
  CASE kind = "component" -> "_component_list"
    [] kind = "fan" -> "_fan_list"
    [] kind = "psu" -> "_psu_list"
    [] kind = "thermal" -> "_thermal_list"
    [] kind = "sfp" -> "_sfp_list"

StubOps == {"get_base_mac", "get_system_eeprom_info", "get_name", "get_description",
            "get_slot", "get_type", "get_status", "reboot"}

Stub(self, op) ==
  CASE op = "get_base_mac" -> get_base_mac(self)
    [] op = "get_system_eeprom_info" -> get_system_eeprom_info(self)
    [] op = "get_name" -> get_name(self)
    [] op = "get_description" -> get_description(self)
    [] op = "get_slot" -> get_slot(self)
    [] op = "get_type" -> get_type(self)
    [] op = "get_status" -> get_status(self)
    [] op = "reboot" -> reboot(self)

\* ------------------------------------------------------------------ state
Called(op, self, kind, arg, outcome) ==
  [op |-> op, self |-> self, kind |-> kind, arg |-> arg,
   ret |-> outcome.ret, exc |-> outcome.exc, err |-> outcome.err]

NoCall == Called("none", "none", "none", None, Return(None))

Init ==
  /\ cls = [m \in Modules |-> "unborn"]
  /\ inst = [m \in Modules |-> <<>>]
  /\ heap = [a \in Addrs |-> <<>>]
  /\ nregs = [m \in Modules |-> 0]
  /\ last = [op |-> "none", self |-> "none", kind |-> "none", arg |-> None,
             ret |-> None, exc |-> "none", err |-> <<>>]
  /\ since = 0

\* ModuleBase(): a new object on which the base constructor runs
Construct(m) ==
  /\ cls[m] = "unborn"
  /\ cls' = [cls EXCEPT ![m] = "ModuleBase"]
  /\ inst' = [inst EXCEPT ![m] = __init__(m)]
  /\ heap' = [a \in Addrs |-> IF a[1] = m THEN <<>> ELSE heap[a]]
  /\ UNCHANGED <<nregs, last, since>>

\* a subclass whose __init__ does not call the one of ModuleBase: the
\* instance dictionary stays empty and the attributes are those of the class
ConstructWithoutBaseInit(m) ==
  /\ cls[m] = "unborn"
  /\ cls' = [cls EXCEPT ![m] = "SubclassWithoutBaseInit"]
  /\ inst' = [inst EXCEPT ![m] = <<>>]
  /\ UNCHANGED <<heap, nregs, last, since>>

\* the owning implementation registers a new sub-device: it appends a new
\* device object to the list the attribute refers to
Register(m, kind) ==
  /\ m \in alive
  /\ TotalRegs < MaxRegs
  /\ Lookup(m, AttrOf(kind)).t = "list"
  /\ heap' = [heap EXCEPT ![Lookup(m, AttrOf(kind)).addr] =
                          Append(@, Device(<<m, kind, Len(@) + 1>>))]
  /\ nregs' = [nregs EXCEPT ![m] = @ + 1]
  /\ since' = IF last = NoCall THEN 0 ELSE since + 1
  /\ UNCHANGED <<cls, inst, last>>

\* a caller that holds no result calls a public method and holds its outcome
Call(record) ==
  /\ last = NoCall
  /\ last' = record
  /\ since' = 0
  /\ UNCHANGED <<cls, inst, heap, nregs>>

CallGetNum(m, kind) ==
  m \in alive /\ Call(Called("get_num", m, kind, None, get_num(m, kind)))

CallGetAll(m, kind) ==
  m \in alive /\ Call(Called("get_all", m, kind, None, get_all(m, kind)))

CallGet(m, kind, index) ==
  m \in alive /\ Call(Called("get", m, kind, IntV(index), get_kind(m, kind, index)))

CallStub(m, op) ==
  m \in alive /\ Call(Called(op, m, "none", None, Stub(m, op)))

CallSetAdminState(m, up) ==
  m \in alive /\ Call(Called("set_admin_state", m, "none", BoolV(up), set_admin_state(m, up)))

CallGetChangeEvent(m, timeout) ==
  m \in alive /\ Call(Called("get_change_event", m, "none", IntV(timeout), get_change_event(m, timeout)))

\* the caller lets go of the outcome it holds
Forget ==
  /\ last # NoCall
  /\ last' = NoCall
  /\ since' = 0
  /\ UNCHANGED <<cls, inst, heap, nregs>>

Next ==
  \/ \E m \in Modules : Construct(m)
  \/ \E m \in Modules : ConstructWithoutBaseInit(m)
  \/ \E m \in Modules, kind \in KindSet : Register(m, kind)
  \/ \E m \in Modules, kind \in KindSet : CallGetNum(m, kind)
  \/ \E m \in Modules, kind \in KindSet : CallGetAll(m, kind)
  \/ \E m \in Modules, kind \in KindSet, index \in Indices : CallGet(m, kind, index)
  \/ \E m \in Modules, op \in StubOps : CallStub(m, op)
  \/ \E m \in Modules, up \in BOOLEAN : CallSetAdminState(m, up)
  \/ \E m \in Modules, timeout \in Timeouts : CallGetChangeEvent(m, timeout)
  \/ Forget

Spec == Init /\ [][Next]_vars

\* ------------------------------------------------------------ observations
\* the collection of a kind on m, when the attribute refers to a list
HasList(m, kind) == Lookup(m, AttrOf(kind)).t = "list"
Coll(m, kind) == heap[Lookup(m, AttrOf(kind)).addr]

\* the items of a list value: those of the heap for a list of the heap,
\* its own for a list that no attribute refers to
ListItems(v) == IF v.t = "list" THEN heap[v.addr] ELSE v.items

AllStubOps == StubOps \cup {"set_admin_state", "get_change_event"}

TypeOK ==
  /\ cls \in [Modules -> {"unborn", "ModuleBase", "SubclassWithoutBaseInit"}]
  /\ TotalRegs \in 0..MaxRegs
  /\ since \in 0..TotalRegs
  /\ last.exc \in {"none", "NotImplementedError", "TypeError"}

\* ------------------------------------------------------------------ claims
Idx == last.arg.int
HeldGet == last.op = "get" /\ HasList(last.self, last.kind)

\* C1: for every kind, every collection size n >= 0 and every index i with
\* i < 0 or i >= n, get_<kind>(i) returns None, writes exactly one diagnostic
\* line and lets no exception escape.
C1_OutOfRangeIsAbsent ==
  (HeldGet /\ since = 0
     /\ (Idx < 0 \/ Idx >= Len(Coll(last.self, last.kind))))
  => (last.ret = None /\ Len(last.err) = 1 /\ last.exc = "none")

\* C2: for every kind and every index i with 0 <= i < get_num_<kind>s(),
\* get_<kind>(i) returns the i-th element of the sequence get_all_<kind>s()
\* returns and writes no diagnostic.
C2_ValidIndexReturnsElement ==
  (HeldGet /\ since = 0
     /\ Idx >= 0 /\ Idx < get_num(last.self, last.kind).ret.int)
  => (/\ last.exc = "none"
      /\ last.ret = ListItems(get_all(last.self, last.kind).ret)[Idx + 1]
      /\ last.err = <<>>)

C2_Witness ==
  /\ HeldGet /\ since = 0
  /\ Idx = 1 /\ Len(Coll(last.self, last.kind)) = 3
  /\ last.ret = Device(<<last.self, last.kind, 2>>)

\* C3: after ModuleBase() and before any sub-device is registered on the
\* module, get_num_<kind>s() returns 0 and get_all_<kind>s() returns an empty
\* sequence, for each of the five kinds.
C3_EmptyAfterConstruction ==
  /\ \A m \in Modules, kind \in KindSet :
       (cls[m] = "ModuleBase" /\ nregs[m] = 0)
       => (/\ get_num(m, kind) = Return(IntV(0))
           /\ get_all(m, kind).exc = "none"
           /\ get_all(m, kind).ret.t = "list"
           /\ ListItems(get_all(m, kind).ret) = <<>>)
  /\ (last.op \in {"get_num", "get_all"} /\ cls[last.self] = "ModuleBase"
        /\ nregs[last.self] = 0)
     => (/\ last.exc = "none"
         /\ last.op = "get_num" => last.ret = IntV(0)
         /\ last.op = "get_all" => ListItems(last.ret) = <<>>)

C3_Witness ==
  /\ last.op = "get_all" /\ last.kind = "sfp"
  /\ cls[last.self] = "ModuleBase" /\ nregs[last.self] = 0
  /\ TotalRegs > 0

\* C4: each of the ten identity and lifecycle operations of the base class
\* fails with NotImplementedError and returns no value, in any state of the
\* module, and leaves the five collections as they are.
C4_StubsRaiseNotImplemented ==
  /\ [](last.op \in AllStubOps
         => (last.exc = "NotImplementedError" /\ last.ret = NoValue /\ last.err = <<>>))
  /\ [](\A m \in alive :
          /\ \A op \in StubOps : Stub(m, op).exc = "NotImplementedError"
          /\ \A up \in BOOLEAN : set_admin_state(m, up).exc = "NotImplementedError"
          /\ \A timeout \in Timeouts : get_change_event(m, timeout).exc = "NotImplementedError")
  /\ [][(last'.op \in AllStubOps /\ last' # last) => UNCHANGED <<cls, inst, heap, nregs>>]_vars

C4_Witness ==
  /\ last.op = "get_change_event" /\ last.arg = IntV(0)
  /\ last.exc = "NotImplementedError"
  /\ Len(heap[<<last.self, "_sfp_list">>]) = 1

\* C5: whenever get_<kind>(index) writes a diagnostic, the line is the tag of
\* the kind followed by " index {index} out of range (0-{n-1})", n being the
\* size of the collection at the call; with 3 fans get_fan(3) returns None
\* and writes "Fan index 3 out of range (0-2)".
TagOf(kind) ==
  CASE kind = "component" -> "Component"
    [] kind = "fan" -> "Fan"
    [] kind = "psu" -> "PSU"
    [] kind = "thermal" -> "THERMAL"
    [] kind = "sfp" -> "SFP"

C5_DiagnosticText ==
  /\ (HeldGet /\ since = 0 /\ last.err # <<>>)
     => last.err = <<TagOf(last.kind) \o " index " \o ToString(Idx) \o " out of range (0-"
                       \o ToString(Len(Coll(last.self, last.kind)) - 1) \o ")\n">>
  /\ (HeldGet /\ since = 0 /\ last.kind = "fan" /\ Len(Coll(last.self, "fan")) = 3)
     => (/\ get_num_fans(last.self).ret = IntV(3)
         /\ Idx = 1 => last.ret = Coll(last.self, "fan")[2]
         /\ Idx = 3 => (last.ret = None /\ last.err = <<"Fan index 3 out of range (0-2)\n">>))

C5_Witness ==
  /\ HeldGet /\ since = 0 /\ last.kind = "fan" /\ Len(Coll(last.self, "fan")) = 3
  /\ Idx = 3 /\ last.err # <<>>

\* C6: get_all_<kind>s() returns the live collection: while a caller holds
\* the sequence S it returned, whatever is registered afterwards, S has the
\* items of the module's collection, get_num_<kind>s() is the length of S
\* and get_all_<kind>s() returns S again.
C6_GetAllIsLive ==
  (last.op = "get_all" /\ cls[last.self] = "ModuleBase")
  => (/\ last.exc = "none"
      /\ ListItems(last.ret) = Coll(last.self, last.kind)
      /\ get_num(last.self, last.kind).ret = IntV(Len(ListItems(last.ret)))
      /\ get_all(last.self, last.kind).ret = last.ret)

C6_Witness ==
  /\ last.op = "get_all" /\ cls[last.self] = "ModuleBase"
  /\ since = 2 /\ TotalRegs = 2
  /\ Len(ListItems(last.ret)) = 2

\* C8: indices are stable: a call of an accessor or of a stub changes no
\* collection, a registration keeps every element at its index, and once
\* get_<kind>(i) has returned an element for a valid i, a later
\* get_<kind>(i) returns the same element.
C8_IndicesStable ==
  /\ []((last.op = "get" /\ Idx >= 0 /\ last.ret.t = "device")
          => get_kind(last.self, last.kind, Idx)
               = [ret |-> last.ret, exc |-> "none", err |-> <<>>])
  /\ [][(last' # last /\ last'.op # "none") => UNCHANGED <<cls, inst, heap, nregs>>]_vars
  /\ [][\A m \in alive, kind \in KindSet :
          HasList(m, kind)
          => (/\ HasList(m, kind)'
              /\ Len(Coll(m, kind)') >= Len(Coll(m, kind))
              /\ SubSeq(Coll(m, kind)', 1, Len(Coll(m, kind))) = Coll(m, kind))]_vars

C8_Witness ==
  /\ last.op = "get" /\ Idx = 0 /\ last.ret.t = "device"
  /\ since = 1 /\ TotalRegs = 2
  /\ Len(Coll(last.self, last.kind)) = 2

\* C9: in every state in which the accessors of a module object can be
\* called, also for a subclass whose constructor does not run the one of
\* ModuleBase, each of the five collections is a sequence and never None:
\* get_num_<kind>s() returns an integer >= 0, get_all_<kind>s() returns a
\* sequence and get_<kind>(i) lets no exception escape.
C9_CollectionsAlwaysExist ==
  /\ last.op = "get_num" => (last.exc = "none" /\ last.ret.t = "int" /\ last.ret.int >= 0)
  /\ last.op = "get_all" => (last.exc = "none" /\ last.ret.t = "list")
  /\ last.op = "get" => last.exc = "none"

\* C10: the collections are per instance and per kind: registering a
\* sub-device of one kind on one of two constructed modules extends that
\* collection only and leaves the count and the contents of the nine other
\* collections as they were.
C10_RegisterChangesOneCollection ==
  [][\A m \in Modules, kind \in KindSet :
       Register(m, kind)
       => (/\ Len(Coll(m, kind)') = Len(Coll(m, kind)) + 1
           /\ \A m2 \in Modules, kind2 \in KindSet :
                (cls[m2] = "ModuleBase" /\ <<m2, kind2>> # <<m, kind>>)
                => (/\ get_num(m2, kind2)' = get_num(m2, kind2)
                    /\ Coll(m2, kind2)' = Coll(m2, kind2)))]_vars

C10_Witness ==
  /\ cls = [m \in Modules |-> "ModuleBase"]
  /\ Len(Coll("m1", "fan")) = 1 /\ Len(Coll("m2", "fan")) = 1
  /\ Len(Coll("m1", "psu")) = 1
====
